---- MODULE Spec2Model ----
(***************************************************************************)
(* Model of src/app.py: the lazily initialised NER model stack (get_ner),  *)
(* the /ner handler, the helpers normalize_token, token_quote and the      *)
(* word tokenizer _WORD_RE, and the /lemmatize and /lemmatize_text         *)
(* handlers.                                                               *)
(*                                                                         *)
(* Strings are sequences of Unicode code points.  The handlers are plain   *)
(* `def` endpoints, which the framework runs on worker threads: a request  *)
(* is a thread whose steps interleave with the other requests' steps at    *)
(* every access to the module globals.                                     *)
(***************************************************************************)
EXTENDS Integers, Sequences, FiniteSets, TLC

VARIABLES _segmenter, _emb, _ner_tagger, _vocab,
          pc, loc, resp, builds, completed, call

modelState == <<_segmenter, _emb, _ner_tagger, _vocab>>
vars == <<_segmenter, _emb, _ner_tagger, _vocab, pc, loc, resp, builds, completed, call>>

(* ------------------------------ bounds -------------------------------- *)
\* Requests in flight at once (worker threads); each runs one request.
NumRequests == 2
\* Spans the tagger finds in one /ner request.
MaxSpans == 1
\* Tokens of a /lemmatize request, and the length of one token.
MaxTokens == 2
MaxTokenLen == 2
\* Length of a text given to the tokenizer and to /lemmatize_text.
MaxTextLen == 4
\* Length of a text given to token_quote, and the windows tried besides the
\* largest one the request model admits.
MaxQuoteLen == 3
MaxWindow == 2

Requests == 1..NumRequests

Max(a, b) == IF a >= b THEN a ELSE b
Min(a, b) == IF a <= b THEN a ELSE b

\* All sequences over S of length at most n.
SeqsUpTo(S, n) == UNION { [1..k -> S] : k \in 0..n }

(* ------------------------ values and exceptions ------------------------ *)
\* Python's None; a constructed object is named by the number (>= 1) of the
\* construction attempt that made it.
None == 0

\* The errors a library call may raise: type(e).__name__ and str(e).
Errors == { [cls |-> "ModuleNotFoundError", msg |-> <<"No module named 'natasha'">>,
             status_code |-> 0, detail |-> <<>>],
            [cls |-> "RuntimeError", msg |-> <<"model load failed">>,
             status_code |-> 0, detail |-> <<>>] }

\* str() of an HTTPException is "<status_code>: <detail>".
HTTPException(status_code, detail) ==
    [cls |-> "HTTPException", msg |-> <<ToString(status_code), ": ">> \o detail,
     status_code |-> status_code, detail |-> detail]

\* The window of a LemmaTextRequestBody: Field(40, ge=0, le=500).
WindowDefault == 40
WindowMax == 500

(* ------------------------------ strings -------------------------------- *)
\* The code points the model's strings are made of:
\*   1050 К   1105 ё   1111 ї (Cyrillic, not Russian)   97 a   49 1   32 space
Alphabet == {1050, 1105, 1111, 97, 49, 32}
\*   1025 Ё   1077 е   32 space
TokenAlphabet == {1025, 1077, 32}
\*   1082 к   1077 е   32 space
QuoteAlphabet == {1082, 1077, 32}

\* str.lower() on one code point other than U+03A3 and U+0130: the simple
\* lowercase mapping of the Unicode character database (14.0.0), as runs of
\* code points with one offset; in a run of pairs (upper, lower) only every
\* second code point moves.
lower_char(c) ==
    IF c < 5104
    THEN
      IF c < 478
      THEN
        IF c < 407
        THEN
          IF c < 390
          THEN
            IF c < 313
            THEN
              IF c < 216
              THEN
                IF c < 192
                THEN
                  IF c \in 65..90 THEN c + 32 ELSE c
                ELSE
                  IF c \in 192..214 THEN c + 32 ELSE c
              ELSE
                IF c < 256
                THEN
                  IF c \in 216..222 THEN c + 32 ELSE c
                ELSE
                  IF c < 306
                  THEN
                    IF c \in 256..302 /\ (c - 256) % 2 = 0 THEN c + 1 ELSE c
                  ELSE
                    IF c \in 306..310 /\ (c - 306) % 2 = 0 THEN c + 1 ELSE c
            ELSE
              IF c < 377
              THEN
                IF c < 330
                THEN
                  IF c \in 313..327 /\ (c - 313) % 2 = 0 THEN c + 1 ELSE c
                ELSE
                  IF c < 376
                  THEN
                    IF c \in 330..374 /\ (c - 330) % 2 = 0 THEN c + 1 ELSE c
                  ELSE
                    IF c = 376 THEN c - 121 ELSE c
              ELSE
                IF c < 385
                THEN
                  IF c \in 377..381 /\ (c - 377) % 2 = 0 THEN c + 1 ELSE c
                ELSE
                  IF c < 386
                  THEN
                    IF c = 385 THEN c + 210 ELSE c
                  ELSE
                    IF c \in 386..388 /\ (c - 386) % 2 = 0 THEN c + 1 ELSE c
          ELSE
            IF c < 399
            THEN
              IF c < 393
              THEN
                IF c < 391
                THEN
                  IF c = 390 THEN c + 206 ELSE c
                ELSE
                  IF c = 391 THEN c + 1 ELSE c
              ELSE
                IF c < 395
                THEN
                  IF c \in 393..394 THEN c + 205 ELSE c
                ELSE
                  IF c < 398
                  THEN
                    IF c = 395 THEN c + 1 ELSE c
                  ELSE
                    IF c = 398 THEN c + 79 ELSE c
            ELSE
              IF c < 403
              THEN
                IF c < 400
                THEN
                  IF c = 399 THEN c + 202 ELSE c
                ELSE
                  IF c < 401
                  THEN
                    IF c = 400 THEN c + 203 ELSE c
                  ELSE
                    IF c = 401 THEN c + 1 ELSE c
              ELSE
                IF c < 404
                THEN
                  IF c = 403 THEN c + 205 ELSE c
                ELSE
                  IF c < 406
                  THEN
                    IF c = 404 THEN c + 207 ELSE c
                  ELSE
                    IF c = 406 THEN c + 211 ELSE c
        ELSE
          IF c < 431
          THEN
            IF c < 416
            THEN
              IF c < 412
              THEN
                IF c < 408
                THEN
                  IF c = 407 THEN c + 209 ELSE c
                ELSE
                  IF c = 408 THEN c + 1 ELSE c
              ELSE
                IF c < 413
                THEN
                  IF c = 412 THEN c + 211 ELSE c
                ELSE
                  IF c < 415
                  THEN
                    IF c = 413 THEN c + 213 ELSE c
                  ELSE
                    IF c = 415 THEN c + 214 ELSE c
            ELSE
              IF c < 425
              THEN
                IF c < 422
                THEN
                  IF c \in 416..420 /\ (c - 416) % 2 = 0 THEN c + 1 ELSE c
                ELSE
                  IF c < 423
                  THEN
                    IF c = 422 THEN c + 218 ELSE c
                  ELSE
                    IF c = 423 THEN c + 1 ELSE c
              ELSE
                IF c < 428
                THEN
                  IF c = 425 THEN c + 218 ELSE c
                ELSE
                  IF c < 430
                  THEN
                    IF c = 428 THEN c + 1 ELSE c
                  ELSE
                    IF c = 430 THEN c + 218 ELSE c
          ELSE
            IF c < 452
            THEN
              IF c < 439
              THEN
                IF c < 433
                THEN
                  IF c = 431 THEN c + 1 ELSE c
                ELSE
                  IF c < 435
                  THEN
                    IF c \in 433..434 THEN c + 217 ELSE c
                  ELSE
                    IF c \in 435..437 /\ (c - 435) % 2 = 0 THEN c + 1 ELSE c
              ELSE
                IF c < 440
                THEN
                  IF c = 439 THEN c + 219 ELSE c
                ELSE
                  IF c < 444
                  THEN
                    IF c = 440 THEN c + 1 ELSE c
                  ELSE
                    IF c = 444 THEN c + 1 ELSE c
            ELSE
              IF c < 456
              THEN
                IF c < 453
                THEN
                  IF c = 452 THEN c + 2 ELSE c
                ELSE
                  IF c < 455
                  THEN
                    IF c = 453 THEN c + 1 ELSE c
                  ELSE
                    IF c = 455 THEN c + 2 ELSE c
              ELSE
                IF c < 458
                THEN
                  IF c = 456 THEN c + 1 ELSE c
                ELSE
                  IF c < 459
                  THEN
                    IF c = 458 THEN c + 2 ELSE c
                  ELSE
                    IF c \in 459..475 /\ (c - 459) % 2 = 0 THEN c + 1 ELSE c
      ELSE
        IF c < 908
        THEN
          IF c < 574
          THEN
            IF c < 504
            THEN
              IF c < 498
              THEN
                IF c < 497
                THEN
                  IF c \in 478..494 /\ (c - 478) % 2 = 0 THEN c + 1 ELSE c
                ELSE
                  IF c = 497 THEN c + 2 ELSE c
              ELSE
                IF c < 502
                THEN
                  IF c \in 498..500 /\ (c - 498) % 2 = 0 THEN c + 1 ELSE c
                ELSE
                  IF c < 503
                  THEN
                    IF c = 502 THEN c - 97 ELSE c
                  ELSE
                    IF c = 503 THEN c - 56 ELSE c
            ELSE
              IF c < 570
              THEN
                IF c < 544
                THEN
                  IF c \in 504..542 /\ (c - 504) % 2 = 0 THEN c + 1 ELSE c
                ELSE
                  IF c < 546
                  THEN
                    IF c = 544 THEN c - 130 ELSE c
                  ELSE
                    IF c \in 546..562 /\ (c - 546) % 2 = 0 THEN c + 1 ELSE c
              ELSE
                IF c < 571
                THEN
                  IF c = 570 THEN c + 10795 ELSE c
                ELSE
                  IF c < 573
                  THEN
                    IF c = 571 THEN c + 1 ELSE c
                  ELSE
                    IF c = 573 THEN c - 163 ELSE c
          ELSE
            IF c < 582
            THEN
              IF c < 579
              THEN
                IF c < 577
                THEN
                  IF c = 574 THEN c + 10792 ELSE c
                ELSE
                  IF c = 577 THEN c + 1 ELSE c
              ELSE
                IF c < 580
                THEN
                  IF c = 579 THEN c - 195 ELSE c
                ELSE
                  IF c < 581
                  THEN
                    IF c = 580 THEN c + 69 ELSE c
                  ELSE
                    IF c = 581 THEN c + 71 ELSE c
            ELSE
              IF c < 895
              THEN
                IF c < 880
                THEN
                  IF c \in 582..590 /\ (c - 582) % 2 = 0 THEN c + 1 ELSE c
                ELSE
                  IF c < 886
                  THEN
                    IF c \in 880..882 /\ (c - 880) % 2 = 0 THEN c + 1 ELSE c
                  ELSE
                    IF c = 886 THEN c + 1 ELSE c
              ELSE
                IF c < 902
                THEN
                  IF c = 895 THEN c + 116 ELSE c
                ELSE
                  IF c < 904
                  THEN
                    IF c = 902 THEN c + 38 ELSE c
                  ELSE
                    IF c \in 904..906 THEN c + 37 ELSE c
        ELSE
          IF c < 1024
          THEN
            IF c < 984
            THEN
              IF c < 913
              THEN
                IF c < 910
                THEN
                  IF c = 908 THEN c + 64 ELSE c
                ELSE
                  IF c \in 910..911 THEN c + 63 ELSE c
              ELSE
                IF c < 932
                THEN
                  IF c \in 913..929 THEN c + 32 ELSE c
                ELSE
                  IF c < 975
                  THEN
                    IF c \in 932..939 THEN c + 32 ELSE c
                  ELSE
                    IF c = 975 THEN c + 8 ELSE c
            ELSE
              IF c < 1017
              THEN
                IF c < 1012
                THEN
                  IF c \in 984..1006 /\ (c - 984) % 2 = 0 THEN c + 1 ELSE c
                ELSE
                  IF c < 1015
                  THEN
                    IF c = 1012 THEN c - 60 ELSE c
                  ELSE
                    IF c = 1015 THEN c + 1 ELSE c
              ELSE
                IF c < 1018
                THEN
                  IF c = 1017 THEN c - 7 ELSE c
                ELSE
                  IF c < 1021
                  THEN
                    IF c = 1018 THEN c + 1 ELSE c
                  ELSE
                    IF c \in 1021..1023 THEN c - 130 ELSE c
          ELSE
            IF c < 1232
            THEN
              IF c < 1162
              THEN
                IF c < 1040
                THEN
                  IF c \in 1024..1039 THEN c + 80 ELSE c
                ELSE
                  IF c < 1120
                  THEN
                    IF c \in 1040..1071 THEN c + 32 ELSE c
                  ELSE
                    IF c \in 1120..1152 /\ (c - 1120) % 2 = 0 THEN c + 1 ELSE c
              ELSE
                IF c < 1216
                THEN
                  IF c \in 1162..1214 /\ (c - 1162) % 2 = 0 THEN c + 1 ELSE c
                ELSE
                  IF c < 1217
                  THEN
                    IF c = 1216 THEN c + 15 ELSE c
                  ELSE
                    IF c \in 1217..1229 /\ (c - 1217) % 2 = 0 THEN c + 1 ELSE c
            ELSE
              IF c < 4295
              THEN
                IF c < 1329
                THEN
                  IF c \in 1232..1326 /\ (c - 1232) % 2 = 0 THEN c + 1 ELSE c
                ELSE
                  IF c < 4256
                  THEN
                    IF c \in 1329..1366 THEN c + 48 ELSE c
                  ELSE
                    IF c \in 4256..4293 THEN c + 7264 ELSE c
              ELSE
                IF c < 4301
                THEN
                  IF c = 4295 THEN c + 7264 ELSE c
                ELSE
                  IF c < 5024
                  THEN
                    IF c = 4301 THEN c + 7264 ELSE c
                  ELSE
                    IF c \in 5024..5103 THEN c + 38864 ELSE c
    ELSE
      IF c < 11376
      THEN
        IF c < 8154
        THEN
          IF c < 8025
          THEN
            IF c < 7840
            THEN
              IF c < 7357
              THEN
                IF c < 7312
                THEN
                  IF c \in 5104..5109 THEN c + 8 ELSE c
                ELSE
                  IF c \in 7312..7354 THEN c - 3008 ELSE c
              ELSE
                IF c < 7680
                THEN
                  IF c \in 7357..7359 THEN c - 3008 ELSE c
                ELSE
                  IF c < 7838
                  THEN
                    IF c \in 7680..7828 /\ (c - 7680) % 2 = 0 THEN c + 1 ELSE c
                  ELSE
                    IF c = 7838 THEN c - 7615 ELSE c
            ELSE
              IF c < 7976
              THEN
                IF c < 7944
                THEN
                  IF c \in 7840..7934 /\ (c - 7840) % 2 = 0 THEN c + 1 ELSE c
                ELSE
                  IF c < 7960
                  THEN
                    IF c \in 7944..7951 THEN c - 8 ELSE c
                  ELSE
                    IF c \in 7960..7965 THEN c - 8 ELSE c
              ELSE
                IF c < 7992
                THEN
                  IF c \in 7976..7983 THEN c - 8 ELSE c
                ELSE
                  IF c < 8008
                  THEN
                    IF c \in 7992..7999 THEN c - 8 ELSE c
                  ELSE
                    IF c \in 8008..8013 THEN c - 8 ELSE c
          ELSE
            IF c < 8120
            THEN
              IF c < 8072
              THEN
                IF c < 8040
                THEN
                  IF c \in 8025..8031 /\ (c - 8025) % 2 = 0 THEN c - 8 ELSE c
                ELSE
                  IF c \in 8040..8047 THEN c - 8 ELSE c
              ELSE
                IF c < 8088
                THEN
                  IF c \in 8072..8079 THEN c - 8 ELSE c
                ELSE
                  IF c < 8104
                  THEN
                    IF c \in 8088..8095 THEN c - 8 ELSE c
                  ELSE
                    IF c \in 8104..8111 THEN c - 8 ELSE c
            ELSE
              IF c < 8136
              THEN
                IF c < 8122
                THEN
                  IF c \in 8120..8121 THEN c - 8 ELSE c
                ELSE
                  IF c < 8124
                  THEN
                    IF c \in 8122..8123 THEN c - 74 ELSE c
                  ELSE
                    IF c = 8124 THEN c - 9 ELSE c
              ELSE
                IF c < 8140
                THEN
                  IF c \in 8136..8139 THEN c - 86 ELSE c
                ELSE
                  IF c < 8152
                  THEN
                    IF c = 8140 THEN c - 9 ELSE c
                  ELSE
                    IF c \in 8152..8153 THEN c - 8 ELSE c
        ELSE
          IF c < 8544
          THEN
            IF c < 8186
            THEN
              IF c < 8170
              THEN
                IF c < 8168
                THEN
                  IF c \in 8154..8155 THEN c - 100 ELSE c
                ELSE
                  IF c \in 8168..8169 THEN c - 8 ELSE c
              ELSE
                IF c < 8172
                THEN
                  IF c \in 8170..8171 THEN c - 112 ELSE c
                ELSE
                  IF c < 8184
                  THEN
                    IF c = 8172 THEN c - 7 ELSE c
                  ELSE
                    IF c \in 8184..8185 THEN c - 128 ELSE c
            ELSE
              IF c < 8490
              THEN
                IF c < 8188
                THEN
                  IF c \in 8186..8187 THEN c - 126 ELSE c
                ELSE
                  IF c < 8486
                  THEN
                    IF c = 8188 THEN c - 9 ELSE c
                  ELSE
                    IF c = 8486 THEN c - 7517 ELSE c
              ELSE
                IF c < 8491
                THEN
                  IF c = 8490 THEN c - 8383 ELSE c
                ELSE
                  IF c < 8498
                  THEN
                    IF c = 8491 THEN c - 8262 ELSE c
                  ELSE
                    IF c = 8498 THEN c + 28 ELSE c
          ELSE
            IF c < 11363
            THEN
              IF c < 11264
              THEN
                IF c < 8579
                THEN
                  IF c \in 8544..8559 THEN c + 16 ELSE c
                ELSE
                  IF c < 9398
                  THEN
                    IF c = 8579 THEN c + 1 ELSE c
                  ELSE
                    IF c \in 9398..9423 THEN c + 26 ELSE c
              ELSE
                IF c < 11360
                THEN
                  IF c \in 11264..11311 THEN c + 48 ELSE c
                ELSE
                  IF c < 11362
                  THEN
                    IF c = 11360 THEN c + 1 ELSE c
                  ELSE
                    IF c = 11362 THEN c - 10743 ELSE c
            ELSE
              IF c < 11373
              THEN
                IF c < 11364
                THEN
                  IF c = 11363 THEN c - 3814 ELSE c
                ELSE
                  IF c < 11367
                  THEN
                    IF c = 11364 THEN c - 10727 ELSE c
                  ELSE
                    IF c \in 11367..11371 /\ (c - 11367) % 2 = 0 THEN c + 1 ELSE c
              ELSE
                IF c < 11374
                THEN
                  IF c = 11373 THEN c - 10780 ELSE c
                ELSE
                  IF c < 11375
                  THEN
                    IF c = 11374 THEN c - 10749 ELSE c
                  ELSE
                    IF c = 11375 THEN c - 10783 ELSE c
      ELSE
        IF c < 42928
        THEN
          IF c < 42873
          THEN
            IF c < 11499
            THEN
              IF c < 11381
              THEN
                IF c < 11378
                THEN
                  IF c = 11376 THEN c - 10782 ELSE c
                ELSE
                  IF c = 11378 THEN c + 1 ELSE c
              ELSE
                IF c < 11390
                THEN
                  IF c = 11381 THEN c + 1 ELSE c
                ELSE
                  IF c < 11392
                  THEN
                    IF c \in 11390..11391 THEN c - 10815 ELSE c
                  ELSE
                    IF c \in 11392..11490 /\ (c - 11392) % 2 = 0 THEN c + 1 ELSE c
            ELSE
              IF c < 42624
              THEN
                IF c < 11506
                THEN
                  IF c \in 11499..11501 /\ (c - 11499) % 2 = 0 THEN c + 1 ELSE c
                ELSE
                  IF c < 42560
                  THEN
                    IF c = 11506 THEN c + 1 ELSE c
                  ELSE
                    IF c \in 42560..42604 /\ (c - 42560) % 2 = 0 THEN c + 1 ELSE c
              ELSE
                IF c < 42786
                THEN
                  IF c \in 42624..42650 /\ (c - 42624) % 2 = 0 THEN c + 1 ELSE c
                ELSE
                  IF c < 42802
                  THEN
                    IF c \in 42786..42798 /\ (c - 42786) % 2 = 0 THEN c + 1 ELSE c
                  ELSE
                    IF c \in 42802..42862 /\ (c - 42802) % 2 = 0 THEN c + 1 ELSE c
          ELSE
            IF c < 42902
            THEN
              IF c < 42891
              THEN
                IF c < 42877
                THEN
                  IF c \in 42873..42875 /\ (c - 42873) % 2 = 0 THEN c + 1 ELSE c
                ELSE
                  IF c < 42878
                  THEN
                    IF c = 42877 THEN c - 35332 ELSE c
                  ELSE
                    IF c \in 42878..42886 /\ (c - 42878) % 2 = 0 THEN c + 1 ELSE c
              ELSE
                IF c < 42893
                THEN
                  IF c = 42891 THEN c + 1 ELSE c
                ELSE
                  IF c < 42896
                  THEN
                    IF c = 42893 THEN c - 42280 ELSE c
                  ELSE
                    IF c \in 42896..42898 /\ (c - 42896) % 2 = 0 THEN c + 1 ELSE c
            ELSE
              IF c < 42924
              THEN
                IF c < 42922
                THEN
                  IF c \in 42902..42920 /\ (c - 42902) % 2 = 0 THEN c + 1 ELSE c
                ELSE
                  IF c < 42923
                  THEN
                    IF c = 42922 THEN c - 42308 ELSE c
                  ELSE
                    IF c = 42923 THEN c - 42319 ELSE c
              ELSE
                IF c < 42925
                THEN
                  IF c = 42924 THEN c - 42315 ELSE c
                ELSE
                  IF c < 42926
                  THEN
                    IF c = 42925 THEN c - 42305 ELSE c
                  ELSE
                    IF c = 42926 THEN c - 42308 ELSE c
        ELSE
          IF c < 42997
          THEN
            IF c < 42948
            THEN
              IF c < 42930
              THEN
                IF c < 42929
                THEN
                  IF c = 42928 THEN c - 42258 ELSE c
                ELSE
                  IF c = 42929 THEN c - 42282 ELSE c
              ELSE
                IF c < 42931
                THEN
                  IF c = 42930 THEN c - 42261 ELSE c
                ELSE
                  IF c < 42932
                  THEN
                    IF c = 42931 THEN c + 928 ELSE c
                  ELSE
                    IF c \in 42932..42946 /\ (c - 42932) % 2 = 0 THEN c + 1 ELSE c
            ELSE
              IF c < 42951
              THEN
                IF c < 42949
                THEN
                  IF c = 42948 THEN c - 48 ELSE c
                ELSE
                  IF c < 42950
                  THEN
                    IF c = 42949 THEN c - 42307 ELSE c
                  ELSE
                    IF c = 42950 THEN c - 35384 ELSE c
              ELSE
                IF c < 42960
                THEN
                  IF c \in 42951..42953 /\ (c - 42951) % 2 = 0 THEN c + 1 ELSE c
                ELSE
                  IF c < 42966
                  THEN
                    IF c = 42960 THEN c + 1 ELSE c
                  ELSE
                    IF c \in 42966..42968 /\ (c - 42966) % 2 = 0 THEN c + 1 ELSE c
          ELSE
            IF c < 66956
            THEN
              IF c < 66736
              THEN
                IF c < 65313
                THEN
                  IF c = 42997 THEN c + 1 ELSE c
                ELSE
                  IF c < 66560
                  THEN
                    IF c \in 65313..65338 THEN c + 32 ELSE c
                  ELSE
                    IF c \in 66560..66599 THEN c + 40 ELSE c
              ELSE
                IF c < 66928
                THEN
                  IF c \in 66736..66771 THEN c + 40 ELSE c
                ELSE
                  IF c < 66940
                  THEN
                    IF c \in 66928..66938 THEN c + 39 ELSE c
                  ELSE
                    IF c \in 66940..66954 THEN c + 39 ELSE c
            ELSE
              IF c < 71840
              THEN
                IF c < 66964
                THEN
                  IF c \in 66956..66962 THEN c + 39 ELSE c
                ELSE
                  IF c < 68736
                  THEN
                    IF c \in 66964..66965 THEN c + 39 ELSE c
                  ELSE
                    IF c \in 68736..68786 THEN c + 64 ELSE c
              ELSE
                IF c < 93760
                THEN
                  IF c \in 71840..71871 THEN c + 32 ELSE c
                ELSE
                  IF c < 125184
                  THEN
                    IF c \in 93760..93791 THEN c + 32 ELSE c
                  ELSE
                    IF c \in 125184..125217 THEN c + 34 ELSE c

\* The code points with the property Case_Ignorable.
IsCaseIgnorable(c) ==
    \/ c = 39 \/ c = 46 \/ c = 58 \/ c = 94 \/ c = 96 \/ c = 168 \/ c = 173
    \/ c = 175 \/ c = 180 \/ c \in 183..184 \/ c \in 688..879
    \/ c \in 884..885 \/ c = 890 \/ c \in 900..901 \/ c = 903
    \/ c \in 1155..1161 \/ c = 1369 \/ c = 1375 \/ c \in 1425..1469
    \/ c = 1471 \/ c \in 1473..1474 \/ c \in 1476..1477 \/ c = 1479
    \/ c = 1524 \/ c \in 1536..1541 \/ c \in 1552..1562 \/ c = 1564
    \/ c = 1600 \/ c \in 1611..1631 \/ c = 1648 \/ c \in 1750..1757
    \/ c \in 1759..1768 \/ c \in 1770..1773 \/ c = 1807 \/ c = 1809
    \/ c \in 1840..1866 \/ c \in 1958..1968 \/ c \in 2027..2037 \/ c = 2042
    \/ c = 2045 \/ c \in 2070..2093 \/ c \in 2137..2139 \/ c = 2184
    \/ c \in 2192..2193 \/ c \in 2200..2207 \/ c \in 2249..2306 \/ c = 2362
    \/ c = 2364 \/ c \in 2369..2376 \/ c = 2381 \/ c \in 2385..2391
    \/ c \in 2402..2403 \/ c = 2417 \/ c = 2433 \/ c = 2492
    \/ c \in 2497..2500 \/ c = 2509 \/ c \in 2530..2531 \/ c = 2558
    \/ c \in 2561..2562 \/ c = 2620 \/ c \in 2625..2626 \/ c \in 2631..2632
    \/ c \in 2635..2637 \/ c = 2641 \/ c \in 2672..2673 \/ c = 2677
    \/ c \in 2689..2690 \/ c = 2748 \/ c \in 2753..2757 \/ c \in 2759..2760
    \/ c = 2765 \/ c \in 2786..2787 \/ c \in 2810..2815 \/ c = 2817
    \/ c = 2876 \/ c = 2879 \/ c \in 2881..2884 \/ c = 2893
    \/ c \in 2901..2902 \/ c \in 2914..2915 \/ c = 2946 \/ c = 3008
    \/ c = 3021 \/ c = 3072 \/ c = 3076 \/ c = 3132 \/ c \in 3134..3136
    \/ c \in 3142..3144 \/ c \in 3146..3149 \/ c \in 3157..3158
    \/ c \in 3170..3171 \/ c = 3201 \/ c = 3260 \/ c = 3263 \/ c = 3270
    \/ c \in 3276..3277 \/ c \in 3298..3299 \/ c \in 3328..3329
    \/ c \in 3387..3388 \/ c \in 3393..3396 \/ c = 3405 \/ c \in 3426..3427
    \/ c = 3457 \/ c = 3530 \/ c \in 3538..3540 \/ c = 3542 \/ c = 3633
    \/ c \in 3636..3642 \/ c \in 3654..3662 \/ c = 3761 \/ c \in 3764..3772
    \/ c = 3782 \/ c \in 3784..3789 \/ c \in 3864..3865 \/ c = 3893
    \/ c = 3895 \/ c = 3897 \/ c \in 3953..3966 \/ c \in 3968..3972
    \/ c \in 3974..3975 \/ c \in 3981..3991 \/ c \in 3993..4028 \/ c = 4038
    \/ c \in 4141..4144 \/ c \in 4146..4151 \/ c \in 4153..4154
    \/ c \in 4157..4158 \/ c \in 4184..4185 \/ c \in 4190..4192
    \/ c \in 4209..4212 \/ c = 4226 \/ c \in 4229..4230 \/ c = 4237
    \/ c = 4253 \/ c = 4348 \/ c \in 4957..4959 \/ c \in 5906..5908
    \/ c \in 5938..5939 \/ c \in 5970..5971 \/ c \in 6002..6003
    \/ c \in 6068..6069 \/ c \in 6071..6077 \/ c = 6086 \/ c \in 6089..6099
    \/ c = 6103 \/ c = 6109 \/ c \in 6155..6159 \/ c = 6211
    \/ c \in 6277..6278 \/ c = 6313 \/ c \in 6432..6434 \/ c \in 6439..6440
    \/ c = 6450 \/ c \in 6457..6459 \/ c \in 6679..6680 \/ c = 6683
    \/ c = 6742 \/ c \in 6744..6750 \/ c = 6752 \/ c = 6754
    \/ c \in 6757..6764 \/ c \in 6771..6780 \/ c = 6783 \/ c = 6823
    \/ c \in 6832..6862 \/ c \in 6912..6915 \/ c = 6964 \/ c \in 6966..6970
    \/ c = 6972 \/ c = 6978 \/ c \in 7019..7027 \/ c \in 7040..7041
    \/ c \in 7074..7077 \/ c \in 7080..7081 \/ c \in 7083..7085 \/ c = 7142
    \/ c \in 7144..7145 \/ c = 7149 \/ c \in 7151..7153 \/ c \in 7212..7219
    \/ c \in 7222..7223 \/ c \in 7288..7293 \/ c \in 7376..7378
    \/ c \in 7380..7392 \/ c \in 7394..7400 \/ c = 7405 \/ c = 7412
    \/ c \in 7416..7417 \/ c \in 7468..7530 \/ c = 7544 \/ c \in 7579..7679
    \/ c = 8125 \/ c \in 8127..8129 \/ c \in 8141..8143 \/ c \in 8157..8159
    \/ c \in 8173..8175 \/ c \in 8189..8190 \/ c \in 8203..8207
    \/ c \in 8216..8217 \/ c = 8228 \/ c = 8231 \/ c \in 8234..8238
    \/ c \in 8288..8292 \/ c \in 8294..8303 \/ c = 8305 \/ c = 8319
    \/ c \in 8336..8348 \/ c \in 8400..8432 \/ c \in 11388..11389
    \/ c \in 11503..11505 \/ c = 11631 \/ c = 11647 \/ c \in 11744..11775
    \/ c = 11823 \/ c = 12293 \/ c \in 12330..12333 \/ c \in 12337..12341
    \/ c = 12347 \/ c \in 12441..12446 \/ c \in 12540..12542 \/ c = 40981
    \/ c \in 42232..42237 \/ c = 42508 \/ c \in 42607..42610
    \/ c \in 42612..42621 \/ c = 42623 \/ c \in 42652..42655
    \/ c \in 42736..42737 \/ c \in 42752..42785 \/ c = 42864
    \/ c \in 42888..42890 \/ c \in 42994..42996 \/ c \in 43000..43001
    \/ c = 43010 \/ c = 43014 \/ c = 43019 \/ c \in 43045..43046 \/ c = 43052
    \/ c \in 43204..43205 \/ c \in 43232..43249 \/ c = 43263
    \/ c \in 43302..43309 \/ c \in 43335..43345 \/ c \in 43392..43394
    \/ c = 43443 \/ c \in 43446..43449 \/ c \in 43452..43453 \/ c = 43471
    \/ c \in 43493..43494 \/ c \in 43561..43566 \/ c \in 43569..43570
    \/ c \in 43573..43574 \/ c = 43587 \/ c = 43596 \/ c = 43632 \/ c = 43644
    \/ c = 43696 \/ c \in 43698..43700 \/ c \in 43703..43704
    \/ c \in 43710..43711 \/ c = 43713 \/ c = 43741 \/ c \in 43756..43757
    \/ c \in 43763..43764 \/ c = 43766 \/ c \in 43867..43871
    \/ c \in 43881..43883 \/ c = 44005 \/ c = 44008 \/ c = 44013 \/ c = 64286
    \/ c \in 64434..64450 \/ c \in 65024..65039 \/ c = 65043
    \/ c \in 65056..65071 \/ c = 65106 \/ c = 65109 \/ c = 65279 \/ c = 65287
    \/ c = 65294 \/ c = 65306 \/ c = 65342 \/ c = 65344 \/ c = 65392
    \/ c \in 65438..65439 \/ c = 65507 \/ c \in 65529..65531 \/ c = 66045
    \/ c = 66272 \/ c \in 66422..66426 \/ c \in 67456..67461
    \/ c \in 67463..67504 \/ c \in 67506..67514 \/ c \in 68097..68099
    \/ c \in 68101..68102 \/ c \in 68108..68111 \/ c \in 68152..68154
    \/ c = 68159 \/ c \in 68325..68326 \/ c \in 68900..68903
    \/ c \in 69291..69292 \/ c \in 69446..69456 \/ c \in 69506..69509
    \/ c = 69633 \/ c \in 69688..69702 \/ c = 69744 \/ c \in 69747..69748
    \/ c \in 69759..69761 \/ c \in 69811..69814 \/ c \in 69817..69818
    \/ c = 69821 \/ c = 69826 \/ c = 69837 \/ c \in 69888..69890
    \/ c \in 69927..69931 \/ c \in 69933..69940 \/ c = 70003
    \/ c \in 70016..70017 \/ c \in 70070..70078 \/ c \in 70089..70092
    \/ c = 70095 \/ c \in 70191..70193 \/ c = 70196 \/ c \in 70198..70199
    \/ c = 70206 \/ c = 70367 \/ c \in 70371..70378 \/ c \in 70400..70401
    \/ c \in 70459..70460 \/ c = 70464 \/ c \in 70502..70508
    \/ c \in 70512..70516 \/ c \in 70712..70719 \/ c \in 70722..70724
    \/ c = 70726 \/ c = 70750 \/ c \in 70835..70840 \/ c = 70842
    \/ c \in 70847..70848 \/ c \in 70850..70851 \/ c \in 71090..71093
    \/ c \in 71100..71101 \/ c \in 71103..71104 \/ c \in 71132..71133
    \/ c \in 71219..71226 \/ c = 71229 \/ c \in 71231..71232 \/ c = 71339
    \/ c = 71341 \/ c \in 71344..71349 \/ c = 71351 \/ c \in 71453..71455
    \/ c \in 71458..71461 \/ c \in 71463..71467 \/ c \in 71727..71735
    \/ c \in 71737..71738 \/ c \in 71995..71996 \/ c = 71998 \/ c = 72003
    \/ c \in 72148..72151 \/ c \in 72154..72155 \/ c = 72160
    \/ c \in 72193..72202 \/ c \in 72243..72248 \/ c \in 72251..72254
    \/ c = 72263 \/ c \in 72273..72278 \/ c \in 72281..72283
    \/ c \in 72330..72342 \/ c \in 72344..72345 \/ c \in 72752..72758
    \/ c \in 72760..72765 \/ c = 72767 \/ c \in 72850..72871
    \/ c \in 72874..72880 \/ c \in 72882..72883 \/ c \in 72885..72886
    \/ c \in 73009..73014 \/ c = 73018 \/ c \in 73020..73021
    \/ c \in 73023..73029 \/ c = 73031 \/ c \in 73104..73105 \/ c = 73109
    \/ c = 73111 \/ c \in 73459..73460 \/ c \in 78896..78904
    \/ c \in 92912..92916 \/ c \in 92976..92982 \/ c \in 92992..92995
    \/ c = 94031 \/ c \in 94095..94111 \/ c \in 94176..94177
    \/ c \in 94179..94180 \/ c \in 110576..110579 \/ c \in 110581..110587
    \/ c \in 110589..110590 \/ c \in 113821..113822 \/ c \in 113824..113827
    \/ c \in 118528..118573 \/ c \in 118576..118598 \/ c \in 119143..119145
    \/ c \in 119155..119170 \/ c \in 119173..119179 \/ c \in 119210..119213
    \/ c \in 119362..119364 \/ c \in 121344..121398 \/ c \in 121403..121452
    \/ c = 121461 \/ c = 121476 \/ c \in 121499..121503
    \/ c \in 121505..121519 \/ c \in 122880..122886 \/ c \in 122888..122904
    \/ c \in 122907..122913 \/ c \in 122915..122916 \/ c \in 122918..122922
    \/ c \in 123184..123197 \/ c = 123566 \/ c \in 123628..123631
    \/ c \in 125136..125142 \/ c \in 125252..125259 \/ c \in 127995..127999
    \/ c = 917505 \/ c \in 917536..917631 \/ c \in 917760..917999

\* The code points with the property Cased that are not Case_Ignorable (the
\* Final_Sigma test asks for Cased only of a code point that is not).
IsCased(c) ==
    \/ c \in 65..90 \/ c \in 97..122 \/ c = 170 \/ c = 181 \/ c = 186
    \/ c \in 192..214 \/ c \in 216..246 \/ c \in 248..442 \/ c \in 444..447
    \/ c \in 452..659 \/ c \in 661..687 \/ c \in 880..883 \/ c \in 886..887
    \/ c \in 891..893 \/ c = 895 \/ c = 902 \/ c \in 904..906 \/ c = 908
    \/ c \in 910..929 \/ c \in 931..1013 \/ c \in 1015..1153
    \/ c \in 1162..1327 \/ c \in 1329..1366 \/ c \in 1376..1416
    \/ c \in 4256..4293 \/ c = 4295 \/ c = 4301 \/ c \in 4304..4346
    \/ c \in 4349..4351 \/ c \in 5024..5109 \/ c \in 5112..5117
    \/ c \in 7296..7304 \/ c \in 7312..7354 \/ c \in 7357..7359
    \/ c \in 7424..7467 \/ c \in 7531..7543 \/ c \in 7545..7578
    \/ c \in 7680..7957 \/ c \in 7960..7965 \/ c \in 7968..8005
    \/ c \in 8008..8013 \/ c \in 8016..8023 \/ c = 8025 \/ c = 8027
    \/ c = 8029 \/ c \in 8031..8061 \/ c \in 8064..8116 \/ c \in 8118..8124
    \/ c = 8126 \/ c \in 8130..8132 \/ c \in 8134..8140 \/ c \in 8144..8147
    \/ c \in 8150..8155 \/ c \in 8160..8172 \/ c \in 8178..8180
    \/ c \in 8182..8188 \/ c = 8450 \/ c = 8455 \/ c \in 8458..8467
    \/ c = 8469 \/ c \in 8473..8477 \/ c = 8484 \/ c = 8486 \/ c = 8488
    \/ c \in 8490..8493 \/ c \in 8495..8500 \/ c = 8505 \/ c \in 8508..8511
    \/ c \in 8517..8521 \/ c = 8526 \/ c \in 8544..8575 \/ c \in 8579..8580
    \/ c \in 9398..9449 \/ c \in 11264..11387 \/ c \in 11390..11492
    \/ c \in 11499..11502 \/ c \in 11506..11507 \/ c \in 11520..11557
    \/ c = 11559 \/ c = 11565 \/ c \in 42560..42605 \/ c \in 42624..42651
    \/ c \in 42786..42863 \/ c \in 42865..42887 \/ c \in 42891..42894
    \/ c \in 42896..42954 \/ c \in 42960..42961 \/ c = 42963
    \/ c \in 42965..42969 \/ c \in 42997..42998 \/ c = 43002
    \/ c \in 43824..43866 \/ c \in 43872..43880 \/ c \in 43888..43967
    \/ c \in 64256..64262 \/ c \in 64275..64279 \/ c \in 65313..65338
    \/ c \in 65345..65370 \/ c \in 66560..66639 \/ c \in 66736..66771
    \/ c \in 66776..66811 \/ c \in 66928..66938 \/ c \in 66940..66954
    \/ c \in 66956..66962 \/ c \in 66964..66965 \/ c \in 66967..66977
    \/ c \in 66979..66993 \/ c \in 66995..67001 \/ c \in 67003..67004
    \/ c \in 68736..68786 \/ c \in 68800..68850 \/ c \in 71840..71903
    \/ c \in 93760..93823 \/ c \in 119808..119892 \/ c \in 119894..119964
    \/ c \in 119966..119967 \/ c = 119970 \/ c \in 119973..119974
    \/ c \in 119977..119980 \/ c \in 119982..119993 \/ c = 119995
    \/ c \in 119997..120003 \/ c \in 120005..120069 \/ c \in 120071..120074
    \/ c \in 120077..120084 \/ c \in 120086..120092 \/ c \in 120094..120121
    \/ c \in 120123..120126 \/ c \in 120128..120132 \/ c = 120134
    \/ c \in 120138..120144 \/ c \in 120146..120485 \/ c \in 120488..120512
    \/ c \in 120514..120538 \/ c \in 120540..120570 \/ c \in 120572..120596
    \/ c \in 120598..120628 \/ c \in 120630..120654 \/ c \in 120656..120686
    \/ c \in 120688..120712 \/ c \in 120714..120744 \/ c \in 120746..120770
    \/ c \in 120772..120779 \/ c \in 122624..122633 \/ c \in 122635..122654
    \/ c \in 125184..125251 \/ c \in 127280..127305 \/ c \in 127312..127337
    \/ c \in 127344..127369

\* The Final_Sigma context of the capital sigma at s[i]: the nearest code
\* point before it that is not case-ignorable exists and is cased, and the
\* nearest one after it, if any, is not cased.
final_sigma(s, i) ==
    LET before == { j \in 1..(i - 1) : ~IsCaseIgnorable(s[j]) }
        after  == { j \in (i + 1)..Len(s) : ~IsCaseIgnorable(s[j]) }
    IN  /\ before # {}
        /\ IsCased(s[CHOOSE j \in before : \A k \in before : k <= j])
        /\ \/ after = {}
           \/ ~IsCased(s[CHOOSE j \in after : \A k \in after : j <= k])

\* What str.lower() puts for s[i]: U+03A3 becomes the final or the medial
\* small sigma, U+0130 becomes "i" and a combining dot, two code points;
\* every other code point maps by lower_char.
lower_at(s, i) ==
    IF s[i] = 931 THEN <<IF final_sigma(s, i) THEN 962 ELSE 963>>
    ELSE IF s[i] = 304 THEN <<105, 775>>
    ELSE <<lower_char(s[i])>>

RECURSIVE lower_from(_, _)
lower_from(s, i) ==
    IF i > Len(s) THEN <<>> ELSE lower_at(s, i) \o lower_from(s, i + 1)

\* str.lower().
lower(s) == lower_from(s, 1)

\* str.replace("ё", "е").
replace_yo(s) == [i \in 1..Len(s) |-> IF s[i] = 1105 THEN 1077 ELSE s[i]]

\* The characters str.strip() removes.
IsSpace(c) ==
    c \in (9..13) \cup (28..32) \cup {133, 160, 5760} \cup (8192..8202)
          \cup {8232, 8233, 8239, 8287, 12288}

strip(s) ==
    LET keep == { i \in 1..Len(s) : ~IsSpace(s[i]) }
    IN  IF keep = {} THEN <<>>
        ELSE LET first == CHOOSE i \in keep : \A j \in keep : i <= j
                 last  == CHOOSE i \in keep : \A j \in keep : j <= i
             IN  SubSeq(s, first, last)

\* Line 60.
normalize_token(token) == strip(replace_yo(lower(token)))

\* Python's s[a:b] for integers a, b: negative indices count from the end,
\* and both are clamped to the string.
PySlice(s, a, b) ==
    LET n  == Len(s)
        lo == IF a < 0 THEN Max(a + n, 0) ELSE Min(a, n)
        hi == IF b < 0 THEN Max(b + n, 0) ELSE Min(b, n)
    IN  IF lo >= hi THEN <<>> ELSE SubSeq(s, lo + 1, hi)

\* A plausible slip: the left edge is not clamped at 0.
token_quote_unclamped(text, start, end, window) ==
    PySlice(text, start - window, Min(Len(text), end + window))

\* Lines 62-68.
token_quote(text, start, end, window) ==
    LET left  == Max(0, start - window)
        right == Min(Len(text), end + window)
    IN  PySlice(text, left, right)

\* A plausible slip: a class that takes every Cyrillic letter.
IsWordCharAnyCyrillic(c) ==
    c \in (65..90) \cup (97..122) \cup (1024..1153) \cup (1162..1279) \cup (48..57)

\* The class of _WORD_RE, line 52: [A-Za-zА-Яа-яЁё0-9].
IsWordChar(c) ==
    c \in (65..90) \cup (97..122) \cup (1040..1071) \cup (1072..1103)
          \cup {1025, 1105} \cup (48..57)

\* The greedy +: the end (exclusive, 0-based) of the run that starts at i.
RECURSIVE RunEnd(_, _)
RunEnd(text, i) ==
    IF i < Len(text) /\ IsWordChar(text[i + 1]) THEN RunEnd(text, i + 1) ELSE i

\* _WORD_RE.finditer(text) from position pos on: the leftmost match, then the
\* matches after it; each with group(0), start() and end().
RECURSIVE finditer(_, _)
finditer(text, pos) ==
    IF pos >= Len(text) THEN <<>>
    ELSE IF IsWordChar(text[pos + 1])
         THEN LET e == RunEnd(text, pos + 1)
              IN  <<[group |-> PySlice(text, pos, e), start |-> pos, end |-> e]>>
                  \o finditer(text, e)
         ELSE finditer(text, pos + 1)

(* --------------------------- the analyzer ------------------------------ *)
\* morph.parse(t): the candidates for the normalized word t, in the
\* analyzer's order, each given by its normal_form.  The dictionary is the
\* library's; here a word of two or more letters loses its last letter in
\* its first candidate, and is its own second candidate.
MorphParse(t) ==
    <<IF Len(t) > 1 THEN SubSeq(t, 1, Len(t) - 1) ELSE t, t>>

\* morph.parse(t)[0].normal_form, lines 87 and 117.
first_normal_form(t) == MorphParse(t)[1]

\* An optional lemma: a string, or None.
Some(v) == [is_none |-> FALSE, value |-> v]
NoLemma == [is_none |-> TRUE, value |-> <<>>]

(* ----------------------------- /lemmatize ------------------------------ *)
\* The loop of lines 82-91 from the i-th token on.  `fails` are the positions
\* of the list at which the analyzer raises.
RECURSIVE lemmatize_loop(_, _, _, _)
lemmatize_loop(tokens, fails, i, result) ==
    IF i > Len(tokens) THEN result
    ELSE LET token == tokens[i]
             t     == normalize_token(token)
         IN  IF t = <<>> THEN lemmatize_loop(tokens, fails, i + 1, result)
             ELSE IF i \in fails
                  THEN lemmatize_loop(tokens, fails, i + 1, result)
                  ELSE lemmatize_loop(tokens, fails, i + 1,
                                      (token :> first_normal_form(t)) @@ result)

\* A plausible slip: no try/except around the analyzer, so that its error
\* ends the request.
lemmatize_strict(tokens, fails) ==
    IF \E i \in fails : i <= Len(tokens) /\ normalize_token(tokens[i]) # <<>>
    THEN [status_code |-> 500, body |-> <<>>]
    ELSE [status_code |-> 200, body |-> lemmatize_loop(tokens, fails, 1, <<>>)]

\* A plausible slip: the mapping is keyed by the normalized form.
RECURSIVE lemmatize_loop_normkey(_, _, _, _)
lemmatize_loop_normkey(tokens, fails, i, result) ==
    IF i > Len(tokens) THEN result
    ELSE LET t == normalize_token(tokens[i])
         IN  IF t = <<>> \/ i \in fails
             THEN lemmatize_loop_normkey(tokens, fails, i + 1, result)
             ELSE lemmatize_loop_normkey(tokens, fails, i + 1,
                                         (t :> first_normal_form(t)) @@ result)

lemmatize_normkey(tokens, fails) ==
    [status_code |-> 200, body |-> lemmatize_loop_normkey(tokens, fails, 1, <<>>)]

\* Lines 76-92: the handler's response, {"lemmas": result}.
lemmatize(tokens, fails) ==
    [status_code |-> 200, body |-> lemmatize_loop(tokens, fails, 1, <<>>)]

(* --------------------------- /lemmatize_text --------------------------- *)
\* The loop of lines 107-128 from the i-th match on.  `fails` are the matches
\* (counted from 1) at which the analyzer raises.
RECURSIVE lemmatize_text_loop(_, _, _, _, _, _)
lemmatize_text_loop(text, window, fails, ms, i, items) ==
    IF i > Len(ms) THEN items
    ELSE LET token == ms[i].group
             start == ms[i].start
             end   == ms[i].end
             t     == normalize_token(token)
         IN  IF t = <<>>
             THEN lemmatize_text_loop(text, window, fails, ms, i + 1, items)
             ELSE LET lemma == IF i \in fails THEN NoLemma
                               ELSE Some(first_normal_form(t))
                  IN  lemmatize_text_loop(text, window, fails, ms, i + 1,
                          Append(items, [token |-> token, lemma |-> lemma,
                                         start |-> start, end |-> end,
                                         quote |-> token_quote(text, start, end, window)]))

\* A plausible slip: a token the analyzer fails on is skipped, as /lemmatize
\* does.
RECURSIVE lemmatize_text_loop_skip(_, _, _, _, _, _)
lemmatize_text_loop_skip(text, window, fails, ms, i, items) ==
    IF i > Len(ms) THEN items
    ELSE IF i \in fails
         THEN lemmatize_text_loop_skip(text, window, fails, ms, i + 1, items)
         ELSE lemmatize_text_loop_skip(text, window, fails, ms, i + 1,
                  Append(items, [token |-> ms[i].group,
                                 lemma |-> Some(first_normal_form(normalize_token(ms[i].group))),
                                 start |-> ms[i].start, end |-> ms[i].end,
                                 quote |-> token_quote(text, ms[i].start, ms[i].end, window)]))

lemmatize_text_skip(text, window, fails) ==
    [status_code |-> 200,
     body |-> lemmatize_text_loop_skip(text, window, fails, finditer(text, 0), 1, <<>>)]

\* Lines 96-130: the handler's response, {"items": items}.
lemmatize_text(text, window, fails) ==
    [status_code |-> 200,
     body |-> lemmatize_text_loop(text, window, fails, finditer(text, 0), 1, <<>>)]

(* ------------------------- requests and responses ---------------------- *)
\* A request's locals: the endpoint (op) and its body (req), and for /ner the
\* construction attempt it runs (build), the triple get_ner returned
\* (segmenter, ner_tagger, vocab).
NoLoc == [op |-> "none", req |-> <<>>, build |-> 0,
          segmenter |-> None, ner_tagger |-> None, vocab |-> None]

\* A response not yet produced.  raised_in and error are history: the phase
\* in which the library raised, and what it raised.
NoError == [cls |-> "", msg |-> <<>>, status_code |-> 0, detail |-> <<>>]
NoResp == [status_code |-> 0, detail |-> <<>>, has_body |-> FALSE, body |-> <<>>,
           raised_in |-> "none", error |-> NoError]

\* The framework's answer to a raised HTTPException: its status and detail,
\* and no result.
ErrorResponse(x, where, e) ==
    [status_code |-> x.status_code, detail |-> x.detail, has_body |-> FALSE,
     body |-> <<>>, raised_in |-> where, error |-> e]

\* The framework's answer to a returned value.
OkResponse(r) ==
    [status_code |-> r.status_code, detail |-> <<>>, has_body |-> r.status_code = 200,
     body |-> r.body, raised_in |-> "none", error |-> NoError]

\* get_ner's handler, lines 43-44.
get_ner_except(e) ==
    HTTPException(500, <<"NER init failed: ", e.cls, ": ">> \o e.msg)

\* A plausible slip: no `except HTTPException: raise` before the general
\* handler.
ner_except_all(x) ==
    HTTPException(500, <<"NER failed: ", x.cls, ": ">> \o x.msg)

\* ner's handlers, lines 156-159: an HTTPException is re-raised as it is, any
\* other Exception is wrapped.
ner_except(x) ==
    IF x.cls = "HTTPException"
    THEN x
    ELSE HTTPException(500, <<"NER failed: ", x.cls, ": ">> \o x.msg)

(* ------------------------------- Init ---------------------------------- *)
Init ==
    /\ _segmenter = None
    /\ _emb = None
    /\ _ner_tagger = None
    /\ _vocab = None
    /\ pc = [t \in Requests |-> "idle"]
    /\ loc = [t \in Requests |-> NoLoc]
    /\ resp = [t \in Requests |-> NoResp]
    /\ builds = 0
    /\ completed = {}
    /\ call = [fn |-> "none"]

(* ------------------------------ /ner ----------------------------------- *)
\* The exception x, which began as the library's error e in the phase
\* `where`, leaves ner's try block.
ner_raise(t, x, where, e) ==
    /\ resp' = [resp EXCEPT ![t] = ErrorResponse(ner_except(x), where, e)]
    /\ loc' = [loc EXCEPT ![t] = [NoLoc EXCEPT !.op = "ner"]]
    /\ pc' = [pc EXCEPT ![t] = "done"]

\* Lines 134-136: the request arrives and imports Doc.
ner_begin(t) ==
    /\ pc[t] = "idle"
    /\ \/ /\ pc' = [pc EXCEPT ![t] = "get_ner"]
          /\ loc' = [loc EXCEPT ![t].op = "ner"]
          /\ UNCHANGED resp
       \/ \E e \in Errors : ner_raise(t, e, "import_doc", e)
    /\ UNCHANGED <<modelState, builds, completed, call>>

\* Line 36: the test of _ner_tagger.
get_ner_test(t) ==
    /\ pc[t] = "get_ner"
    /\ IF _ner_tagger = None
       THEN /\ builds' = builds + 1
            /\ loc' = [loc EXCEPT ![t].build = builds + 1]
            /\ pc' = [pc EXCEPT ![t] = "import"]
       ELSE /\ pc' = [pc EXCEPT ![t] = "return_segmenter"]
            /\ UNCHANGED <<builds, loc>>
    /\ UNCHANGED <<modelState, resp, completed, call>>

\* A construction step raises: lines 43-44, then ner's lines 156-157.
get_ner_raise(t) ==
    \E e \in Errors : ner_raise(t, get_ner_except(e), "init", e)

\* Line 38.
get_ner_import(t) ==
    /\ pc[t] = "import"
    /\ \/ /\ pc' = [pc EXCEPT ![t] = "segmenter"]
          /\ UNCHANGED <<loc, resp>>
       \/ get_ner_raise(t)
    /\ UNCHANGED <<modelState, builds, completed, call>>

\* Line 39.
get_ner_segmenter(t) ==
    /\ pc[t] = "segmenter"
    /\ \/ /\ _segmenter' = loc[t].build
          /\ pc' = [pc EXCEPT ![t] = "emb"]
          /\ UNCHANGED <<loc, resp>>
       \/ /\ get_ner_raise(t)
          /\ UNCHANGED _segmenter
    /\ UNCHANGED <<_emb, _ner_tagger, _vocab, builds, completed, call>>

\* Line 40.
get_ner_emb(t) ==
    /\ pc[t] = "emb"
    /\ \/ /\ _emb' = loc[t].build
          /\ pc' = [pc EXCEPT ![t] = "ner_tagger"]
          /\ UNCHANGED <<loc, resp>>
       \/ /\ get_ner_raise(t)
          /\ UNCHANGED _emb
    /\ UNCHANGED <<_segmenter, _ner_tagger, _vocab, builds, completed, call>>

\* Line 41.
get_ner_tagger(t) ==
    /\ pc[t] = "ner_tagger"
    /\ \/ /\ _ner_tagger' = loc[t].build
          /\ pc' = [pc EXCEPT ![t] = "vocab"]
          /\ UNCHANGED <<loc, resp>>
       \/ /\ get_ner_raise(t)
          /\ UNCHANGED _ner_tagger
    /\ UNCHANGED <<_segmenter, _emb, _vocab, builds, completed, call>>

\* Line 42; the attempt is complete when the vocabulary is stored.
get_ner_vocab(t) ==
    /\ pc[t] = "vocab"
    /\ \/ /\ _vocab' = loc[t].build
          /\ completed' = completed \cup {loc[t].build}
          /\ pc' = [pc EXCEPT ![t] = "return_segmenter"]
          /\ UNCHANGED <<loc, resp>>
       \/ /\ get_ner_raise(t)
          /\ UNCHANGED <<_vocab, completed>>
    /\ UNCHANGED <<_segmenter, _emb, _ner_tagger, builds, call>>

\* Line 45 and the unpacking of line 138: the three globals are read one
\* after the other.
get_ner_return_segmenter(t) ==
    /\ pc[t] = "return_segmenter"
    /\ loc' = [loc EXCEPT ![t].segmenter = _segmenter]
    /\ pc' = [pc EXCEPT ![t] = "return_ner_tagger"]
    /\ UNCHANGED <<modelState, resp, builds, completed, call>>

get_ner_return_tagger(t) ==
    /\ pc[t] = "return_ner_tagger"
    /\ loc' = [loc EXCEPT ![t].ner_tagger = _ner_tagger]
    /\ pc' = [pc EXCEPT ![t] = "return_vocab"]
    /\ UNCHANGED <<modelState, resp, builds, completed, call>>

get_ner_return_vocab(t) ==
    /\ pc[t] = "return_vocab"
    /\ loc' = [loc EXCEPT ![t].vocab = _vocab]
    /\ pc' = [pc EXCEPT ![t] = "pipeline"]
    /\ UNCHANGED <<modelState, resp, builds, completed, call>>

\* Lines 140-154 use the request's own objects only, so they are one step:
\* the text is segmented and tagged, the tagger finds n spans, and the loop
\* normalizes and appends each in turn; or one of these calls raises, which
\* ends the request by lines 158-159 whatever was appended before.
ner_pipeline(t) ==
    /\ pc[t] = "pipeline"
    /\ \/ \E n \in 0..MaxSpans :
             resp' = [resp EXCEPT ![t] =
                         OkResponse([status_code |-> 200, body |-> [k \in 1..n |-> k]])]
       \/ \E e \in Errors :
             resp' = [resp EXCEPT ![t] = ErrorResponse(ner_except(e), "pipeline", e)]
    /\ loc' = [loc EXCEPT ![t] = [NoLoc EXCEPT !.op = "ner"]]
    /\ pc' = [pc EXCEPT ![t] = "done"]
    /\ UNCHANGED <<modelState, builds, completed, call>>

ner(t) ==
    \/ ner_begin(t)
    \/ get_ner_test(t)
    \/ get_ner_import(t)
    \/ get_ner_segmenter(t)
    \/ get_ner_emb(t)
    \/ get_ner_tagger(t)
    \/ get_ner_vocab(t)
    \/ get_ner_return_segmenter(t)
    \/ get_ner_return_tagger(t)
    \/ get_ner_return_vocab(t)
    \/ ner_pipeline(t)

(* ---------------------- the lemmatization requests --------------------- *)
\* POST /lemmatize with body {tokens}; the handler touches no global but the
\* read-only analyzer, so it is one step.
lemmatize_request(t, tokens, fails) ==
    /\ pc[t] = "idle"
    /\ loc' = [loc EXCEPT ![t] = [NoLoc EXCEPT !.op = "lemmatize",
                                  !.req = [tokens |-> tokens, fails |-> fails]]]
    /\ resp' = [resp EXCEPT ![t] = OkResponse(lemmatize(tokens, fails))]
    /\ pc' = [pc EXCEPT ![t] = "done"]
    /\ UNCHANGED <<modelState, builds, completed, call>>

\* POST /lemmatize_text with body {text, window}.
lemmatize_text_request(t, text, window, fails) ==
    /\ pc[t] = "idle"
    /\ loc' = [loc EXCEPT ![t] = [NoLoc EXCEPT !.op = "lemmatize_text",
                                  !.req = [text |-> text, window |-> window,
                                           fails |-> fails]]]
    /\ resp' = [resp EXCEPT ![t] = OkResponse(lemmatize_text(text, window, fails))]
    /\ pc' = [pc EXCEPT ![t] = "done"]
    /\ UNCHANGED <<modelState, builds, completed, call>>

\* The request bodies tried beside /ner requests: the tokens "Кк" and "к",
\* the text "к К".
SampleTokenLists == { << <<1050, 1082>>, <<1082>> >> }
SampleTexts == { <<1082, 32, 1050>> }

Next ==
    \/ \E t \in Requests : ner(t)
    \/ \E t \in Requests, tokens \in SampleTokenLists :
          \E fails \in SUBSET (1..Len(tokens)) : lemmatize_request(t, tokens, fails)
    \/ \E t \in Requests, text \in SampleTexts, window \in {WindowDefault} :
          \E fails \in SUBSET (1..Len(finditer(text, 0))) :
             lemmatize_text_request(t, text, window, fails)

Spec == Init /\ [][Next]_vars

(* ------------------- the handlers and helpers alone -------------------- *)
Tokens == SeqsUpTo(TokenAlphabet, MaxTokenLen)
Texts == SeqsUpTo(Alphabet, MaxTextLen)
\* Field(40, ge=0, le=500): the small windows, the default and the largest.
Windows == (0..MaxWindow) \cup {WindowDefault, WindowMax}

\* One /lemmatize request, over every bounded token list and every set of
\* positions at which the analyzer raises.
NextLemmatize ==
    /\ pc[1] = "idle"
    /\ \E tokens \in SeqsUpTo(Tokens, MaxTokens) :
          \E fails \in SUBSET (1..Len(tokens)) : lemmatize_request(1, tokens, fails)

SpecLemmatize == Init /\ [][NextLemmatize]_vars

\* One /lemmatize_text request, over every bounded text and window.
NextLemmatizeText ==
    /\ pc[1] = "idle"
    /\ \E text \in Texts, window \in Windows :
          \E fails \in SUBSET (1..Len(finditer(text, 0))) :
             lemmatize_text_request(1, text, window, fails)

SpecLemmatizeText == Init /\ [][NextLemmatizeText]_vars

\* _WORD_RE.finditer(text) called on its own.
call_finditer(text) ==
    /\ call.fn = "none"
    /\ call' = [fn |-> "finditer", text |-> text, result |-> finditer(text, 0)]
    /\ UNCHANGED <<modelState, pc, loc, resp, builds, completed>>

NextTokenize ==
    /\ call.fn = "none"
    /\ \E text \in Texts : call_finditer(text)

SpecTokenize == Init /\ [][NextTokenize]_vars

\* token_quote called on its own, with 0 <= start <= end <= len(text).
call_token_quote(text, start, end, window) ==
    /\ call.fn = "none"
    /\ call' = [fn |-> "token_quote", text |-> text, start |-> start, end |-> end,
                window |-> window, result |-> token_quote(text, start, end, window)]
    /\ UNCHANGED <<modelState, pc, loc, resp, builds, completed>>

NextQuote ==
    /\ call.fn = "none"
    /\ \E text \in SeqsUpTo(QuoteAlphabet, MaxQuoteLen),
          window \in (0..MaxWindow) \cup {WindowMax} :
          \E start \in 0..Len(text) : \E end \in start..Len(text) :
             call_token_quote(text, start, end, window)

SpecQuote == Init /\ [][NextQuote]_vars

(* ======================= the claims, C1 to C10 ========================= *)
RequestDone(t, op) == pc[t] = "done" /\ loc[t].op = op

\* C1: with no construction failing, the construction block of get_ner is
\* entered at most once over the whole run, however many first /ner requests
\* run concurrently (so at most one model handle is ever made).
C1_ConstructedOnce ==
    (\A t \in Requests : resp[t].raised_in = "none") => builds <= 1

\* C2: when the only construction attempt so far has failed, at whichever of
\* its steps, the manager is Uninitialized (_ner_tagger is None), so that the
\* next get_ner call constructs again from the first step.
C2_FailureLeavesUninitialized ==
    \A t \in Requests :
       (RequestDone(t, "ner") /\ resp[t].raised_in = "init" /\ builds = 1)
          => _ner_tagger = None

\* C3: the triple get_ner returns to a /ner request has all three components
\* constructed, and all three made by one construction that completed.
C3_NoPartialHandle ==
    \A t \in Requests :
       pc[t] = "pipeline" =>
          /\ loc[t].segmenter # None
          /\ loc[t].ner_tagger # None
          /\ loc[t].vocab # None
          /\ loc[t].segmenter = loc[t].ner_tagger
          /\ loc[t].ner_tagger = loc[t].vocab
          /\ loc[t].vocab \in completed

\* C4: once a construction has completed (Ready), no step of any request
\* changes the stored components.
C4_ReadyIsStable ==
    [][completed # {} => modelState' = modelState]_vars

\* C5: a /ner request that fails answers with one HTTP 500 and no entity
\* list, and its detail is "NER init failed: <type>: <message>" when the
\* library raised during construction and "NER failed: <type>: <message>"
\* when it raised in the pipeline; a request in which nothing raised answers
\* 200 with its entities.
C5_ErrorShape ==
    \A t \in Requests :
       RequestDone(t, "ner") =>
          LET r == resp[t]
              rest == <<r.error.cls, ": ">> \o r.error.msg
          IN  /\ r.raised_in = "none" => r.status_code = 200 /\ r.has_body
              /\ r.raised_in # "none" =>
                    /\ r.status_code = 500
                    /\ ~r.has_body
                    /\ r.error \in Errors
                    /\ r.detail \in { <<"NER init failed: ">> \o rest,
                                      <<"NER failed: ">> \o rest }
              /\ r.raised_in = "init" => r.detail = <<"NER init failed: ">> \o rest
              /\ r.raised_in = "pipeline" => r.detail = <<"NER failed: ">> \o rest

C5_Witness ==
    \E t, u \in Requests :
       /\ RequestDone(t, "ner") /\ resp[t].raised_in = "init"
       /\ RequestDone(u, "ner") /\ resp[u].raised_in = "pipeline"

\* C6: a /lemmatize or /lemmatize_text request answers 200 with its result
\* in every state of the model stack and for every set of tokens on which the
\* analyzer raises, and leaves _segmenter, _emb, _ner_tagger and _vocab as
\* they were.
C6_LemmatizationTotalAndFramed ==
    [][\A t \in Requests :
          (pc[t] = "idle" /\ pc'[t] = "done"
             /\ loc'[t].op \in {"lemmatize", "lemmatize_text"})
          => /\ resp'[t].status_code = 200
             /\ resp'[t].has_body
             /\ modelState' = modelState]_vars

\* A /lemmatize request on which the analyzer raised for every token has been
\* answered beside a /ner request whose construction failed.
C6_Witness ==
    \E t, u \in Requests :
       /\ RequestDone(t, "lemmatize")
       /\ loc[t].req.fails = 1..Len(loc[t].req.tokens)
       /\ loc[t].req.fails # {}
       /\ resp[t].status_code = 200
       /\ RequestDone(u, "ner") /\ resp[u].raised_in = "init"

\* C7: the mapping /lemmatize returns has as keys exactly the original token
\* strings that have an occurrence with a non-empty normalized form on which
\* the analyzer did not raise; each maps to the normal form of the first
\* candidate for the normalized form of its last such occurrence; tokens with
\* the same normalized form map to the same lemma.
C7_TokenListMapping ==
    \A t \in Requests :
       RequestDone(t, "lemmatize") =>
          LET tokens == loc[t].req.tokens
              fails  == loc[t].req.fails
              r      == resp[t].body
              ok     == { i \in 1..Len(tokens) :
                            normalize_token(tokens[i]) # <<>> /\ i \notin fails }
              last(k) == CHOOSE i \in ok :
                            /\ tokens[i] = k
                            /\ \A j \in ok : tokens[j] = k => j <= i
          IN  /\ resp[t].status_code = 200
              /\ DOMAIN r = { tokens[i] : i \in ok }
              /\ \A k \in DOMAIN r :
                    r[k] = MorphParse(normalize_token(tokens[last(k)]))[1]
              /\ \A i, j \in ok :
                    normalize_token(tokens[i]) = normalize_token(tokens[j])
                       => r[tokens[i]] = r[tokens[j]]

\* Two different tokens with the same normalized form, neither equal to it,
\* are both keys.
C7_Witness ==
    \E t \in Requests :
       /\ RequestDone(t, "lemmatize")
       /\ LET tokens == loc[t].req.tokens
          IN  /\ Len(tokens) = 2
              /\ tokens[1] # tokens[2]
              /\ normalize_token(tokens[1]) = normalize_token(tokens[2])
              /\ normalize_token(tokens[1]) # <<>>
              /\ tokens[1] # normalize_token(tokens[1])
              /\ tokens[2] # normalize_token(tokens[2])
              /\ loc[t].req.fails = {}
              /\ DOMAIN resp[t].body = {tokens[1], tokens[2]}

\* The maximal runs in text of characters of the class W, as pairs of
\* 0-based offsets <<start, end>>, end exclusive.
MaximalRuns(text, W(_)) ==
    { se \in (0..Len(text)) \X (0..Len(text)) :
        /\ se[1] < se[2]
        /\ \A i \in (se[1] + 1)..se[2] : W(text[i])
        /\ se[1] = 0 \/ ~W(text[se[1]])
        /\ se[2] = Len(text) \/ ~W(text[se[2] + 1]) }

\* The class the regular expression spells out: the ASCII letters and digits
\* and the 66 letters of the Russian alphabet.
RussianWordChar(c) ==
    \/ c \in 48..57 \/ c \in 65..90 \/ c \in 97..122
    \/ c \in 1040..1103 \/ c = 1025 \/ c = 1105

\* Every letter of the Latin and Cyrillic blocks, and every digit.
AnyLetterOrDigit(c) ==
    \/ c \in 48..57 \/ c \in 65..90 \/ c \in 97..122
    \/ c \in 192..214 \/ c \in 216..246 \/ c \in 248..591
    \/ c \in 1024..1153 \/ c \in 1162..1327

\* The tokens ms are the maximal runs of the class W in text, in order, each
\* with its text, and separated from the next.
TokensAreRuns(text, ms, W(_)) ==
    /\ { <<ms[i].start, ms[i].end>> : i \in 1..Len(ms) } = MaximalRuns(text, W)
    /\ \A i \in 1..Len(ms) :
          /\ 0 <= ms[i].start /\ ms[i].start < ms[i].end /\ ms[i].end <= Len(text)
          /\ ms[i].group = SubSeq(text, ms[i].start + 1, ms[i].end)
          /\ \A j \in 1..Len(ms[i].group) : W(ms[i].group[j])
    /\ \A i \in 1..(Len(ms) - 1) : ms[i].end < ms[i + 1].start

\* C8: /lemmatize_text returns one record for each maximal run of word
\* characters, in order of position, each with its own offsets, token and
\* quote; the record of a token on which the analyzer raised is there with
\* lemma None; a record whose lemma is not None has a non-empty token.
C8_OneRecordPerOccurrence ==
    \A t \in Requests :
       RequestDone(t, "lemmatize_text") =>
          LET text  == loc[t].req.text
              fails == loc[t].req.fails
              items == resp[t].body
          IN  /\ resp[t].status_code = 200
              /\ Len(items) = Cardinality(MaximalRuns(text, IsWordChar))
              /\ { <<items[i].start, items[i].end>> : i \in 1..Len(items) }
                    = MaximalRuns(text, IsWordChar)
              /\ \A i \in 1..(Len(items) - 1) : items[i].end < items[i + 1].start
              /\ \A i \in 1..Len(items) :
                    /\ items[i].token = SubSeq(text, items[i].start + 1, items[i].end)
                    /\ items[i].quote = token_quote(text, items[i].start, items[i].end,
                                                    loc[t].req.window)
                    /\ i \in fails => items[i].lemma = NoLemma
                    /\ i \notin fails =>
                          items[i].lemma = Some(MorphParse(normalize_token(items[i].token))[1])
                    /\ ~items[i].lemma.is_none => items[i].token # <<>>

\* The same word twice, the analyzer raising on its first occurrence only.
C8_Witness ==
    \E t \in Requests :
       /\ RequestDone(t, "lemmatize_text")
       /\ loc[t].req.fails = {1}
       /\ Len(resp[t].body) = 2
       /\ resp[t].body[1].token = resp[t].body[2].token
       /\ resp[t].body[1].lemma.is_none
       /\ ~resp[t].body[2].lemma.is_none
       /\ resp[t].body[1].quote # resp[t].body[2].quote

\* C9 as stated: the tokens are the maximal runs of Latin letters, Cyrillic
\* letters and digits.
C9_RunsOfAnyLetter ==
    call.fn = "finditer" => TokensAreRuns(call.text, call.result, AnyLetterOrDigit)

\* C9 amended: the tokens are the maximal runs of the characters of
\* [A-Za-zА-Яа-яЁё0-9], in order, each with start < end and its text equal to
\* the source between its offsets, consecutive tokens apart by at least one
\* other character, which is in no token.
C9_RunsOfRegexClass ==
    call.fn = "finditer" => TokensAreRuns(call.text, call.result, RussianWordChar)

\* A text with two tokens, the first of more than one character, apart
\* by a Cyrillic letter outside the class.
C9_Witness ==
    /\ call.fn = "finditer"
    /\ Len(call.result) = 2
    /\ Len(call.result[1].group) > 1
    /\ call.result[1].end + 1 = call.result[2].start
    /\ call.text[call.result[2].start] = 1111

\* C10: for 0 <= start <= end <= len(text) and 0 <= window <= 500,
\* token_quote returns text[max(0, start-window) : min(len(text), end+window)]
\* with both indices in range; the quote contains text[start:end] at its
\* place, is no longer than (end - start) + 2*window, and with window = 0 is
\* text[start:end].
C10_QuoteIsClampedWindow ==
    call.fn = "token_quote" =>
       LET text  == call.text
           left  == Max(0, call.start - call.window)
           right == Min(Len(text), call.end + call.window)
           q     == call.result
       IN  /\ 0 <= left /\ left <= call.start
           /\ call.end <= right /\ right <= Len(text)
           /\ q = SubSeq(text, left + 1, right)
           /\ Len(q) <= (call.end - call.start) + 2 * call.window
           /\ SubSeq(q, call.start - left + 1, call.end - left)
                 = SubSeq(text, call.start + 1, call.end)
           /\ call.window = 0 => q = SubSeq(text, call.start + 1, call.end)

\* Both edges are clamped: the window reaches past both ends of the text.
C10_Witness ==
    /\ call.fn = "token_quote"
    /\ call.start < call.end
    /\ 0 < call.start /\ call.start < call.window
    /\ call.end < Len(call.text)
    /\ call.end + call.window > Len(call.text)
    /\ call.result = call.text
====
